---- MODULE Spec2Model ----
(***************************************************************************)
(* A model of smart_triage (src/app.py): the delegated triage scorer       *)
(* compute_triage, the case store behind /triage and /hospital/delete, and *)
(* the JSON endpoints /api/recommendation and /api/chatbot.                *)
(*                                                                         *)
(* JSON values are records of one shape, so that values of different       *)
(* Python types can be compared: t is the type tag, s the string, n the    *)
(* number held in tenths (9.5 is 95, 1 is 10), l the list's entries.       *)
(* A Python dict is a function from its keys to such values.               *)
(***************************************************************************)
EXTENDS Integers, Sequences, FiniteSets, TLC

VARIABLES client, cases, clock, submitted, removed, last

vars == <<client, cases, clock, submitted, removed, last>>

\* ------------------------------------------------------------------ bounds
MaxSymptoms == 2
MaxSubmissions == 2

\* ------------------------------------------------------------- JSON values
Atom(t, s, n) == [t |-> t, s |-> s, n |-> n]
AStr(s) == Atom("str", s, 0)
ANum(n) == Atom("num", "", n)

JStr(s) == [t |-> "str", s |-> s, n |-> 0, l |-> <<>>]
JNum(n) == [t |-> "num", s |-> "", n |-> n, l |-> <<>>]
JList(l) == [t |-> "list", s |-> "", n |-> 0, l |-> l]
JNull == [t |-> "null", s |-> "", n |-> 0, l |-> <<>>]

StrList(ss) == JList([i \in 1..Len(ss) |-> AStr(ss[i])])

EmptyDict == [k \in {} |-> JNull]

\* {**a, **b}: the keys of both, b's value where both have the key.
Merge(a, b) ==
    [k \in DOMAIN a \cup DOMAIN b |-> IF k \in DOMAIN b THEN b[k] ELSE a[k]]

\* d.get(k, default)
Get(d, k, default) == IF k \in DOMAIN d THEN d[k] ELSE default

\* Python's truth value of a JSON value (`if selected_symptoms`, `if not data`).
Truthy(v) ==
    CASE v.t = "str" -> v.s # ""
      [] v.t = "num" -> v.n # 0
      [] v.t = "list" -> Len(v.l) > 0
      [] OTHER -> FALSE

\* str.lower() on the colour names the model draws.
Lower(s) ==
    CASE s = "Red" -> "red"
      [] s = "Orange" -> "orange"
      [] s = "Yellow" -> "yellow"
      [] s = "Green" -> "green"
      [] s = "RED" -> "red"
      [] OTHER -> s

\* ------------------------------------------------------ symptom catalogue
Sym(name, weight, critical) ==
    [name |-> name, weight |-> weight, critical |-> critical]

SYMPTOM_ROWS ==
    { Sym("Chest Pain", 5, TRUE),
      Sym("Difficulty Breathing / Shortness of Breath", 5, TRUE),
      Sym("Sudden Numbness / Weakness (Face, Arm, Leg)", 5, TRUE),
      Sym("Loss of Consciousness / Fainting", 5, TRUE),
      Sym("Severe Bleeding (Uncontrollable)", 5, TRUE),
      Sym("Severe Allergic Reaction / Anaphylaxis", 5, TRUE),
      Sym("Choking / Difficulty Swallowing", 5, TRUE),
      Sym("Poisoning / Overdose", 5, TRUE),
      Sym("Spinal / Head Injury", 4, TRUE),
      Sym("Seizures / Convulsions", 4, TRUE),
      Sym("High Fever (> 103°F / 39.4°C)", 4, TRUE),
      Sym("Severe Abdominal Pain", 4, TRUE),
      Sym("Sudden Severe Headache", 4, TRUE),
      Sym("Persistent Vomiting / Inability to Keep Fluids Down", 3, TRUE),
      Sym("Severe Burns", 3, TRUE),
      Sym("Dehydration", 3, FALSE),
      Sym("Bone Fracture (Visible deformity)", 3, FALSE),
      Sym("Dizziness / Vertigo", 2, FALSE),
      Sym("Nausea", 2, FALSE),
      Sym("Joint Pain / Swelling", 2, FALSE),
      Sym("Sprain / Strain", 1, FALSE),
      Sym("Cough", 1, FALSE),
      Sym("Sore Throat", 1, FALSE),
      Sym("Rash / Skin Irritation", 1, FALSE),
      Sym("Mild Headache", 1, FALSE),
      Sym("Mild Cut / Scrape", 1, FALSE),
      Sym("Fatigue", 1, FALSE) }

SymptomNames == { r.name : r \in SYMPTOM_ROWS }

SYMPTOMS == [nm \in SymptomNames |-> CHOOSE r \in SYMPTOM_ROWS : r.name = nm]

\* The multipliers in tenths: 1.0, 1.5, 2.0.
SEVERITY_MULTIPLIER ==
    [sv \in {"Mild", "Moderate", "Severe"} |->
        CASE sv = "Mild" -> 10 [] sv = "Moderate" -> 15 [] sv = "Severe" -> 20]

\* ------------------------------------------- the text-generation service
\* What one call of client.chat.completions.create followed by json.loads can
\* produce: kind "raise" (the call raises), "invalid_json" (json.loads raises),
\* "non_object" (valid JSON that is no object), "object" (data is the parsed
\* dict), "reply" (the chatbot's plain text), "not_called" (no call was made).
Outcome(kind, data, text) == [kind |-> kind, data |-> data, text |-> text]

NoCall == Outcome("not_called", EmptyDict, "")

\* The explanatory fields of a response that follows the prompt's schema.
FullFields ==
    [k \in {"priority_label", "recommended_department", "risk_explanation",
            "immediate_actions"} |->
        CASE k = "priority_label" -> JStr("Immediate Attention")
          [] k = "recommended_department" -> JStr("Emergency")
          [] k = "risk_explanation" -> JStr("Why this level")
          [] k = "immediate_actions" -> StrList(<<"Action 1", "Action 2">>)]

\* Keys a response may carry beyond the schema, named like the derived ones.
ExtraFields ==
    [k \in {"priority", "color", "label", "instructions", "next_steps",
            "reassurance", "selected_symptoms"} |->
        CASE k = "priority" -> JStr("High")
          [] k = "color" -> JStr("blue")
          [] k = "label" -> JStr("Label from the service")
          [] k = "instructions" -> StrList(<<"Injected">>)
          [] k = "next_steps" -> StrList(<<"Injected">>)
          [] k = "reassurance" -> JStr("Injected")
          [] k = "selected_symptoms" -> StrList(<<"Injected">>)]

Field(k, v) == [x \in {k} |-> v]

\* Keys a response may carry beyond the schema, named like the columns of a
\* TriageCase row.
ColumnFields ==
    [k \in {"id", "name", "age", "contact", "severity", "symptoms",
            "description", "timestamp"} |->
        CASE k = "id" -> JNum(20)
          [] k = "name" -> JStr("Mallory")
          [] k = "age" -> JStr("99")
          [] k = "contact" -> JStr("555-0199")
          [] k = "severity" -> JStr("Extreme")
          [] k = "symptoms" -> StrList(<<"Injected">>)
          [] k = "description" -> JStr("Injected")
          [] k = "timestamp" -> JStr("2000-01-01 00:00")]

PriorityColorValues ==
    { JStr("Red"), JStr("Orange"), JStr("Yellow"), JStr("Green"),
      JStr("RED"), JStr("Purple"), JNum(30), JNull }

ScoreValues == { JNum(95), JNum(39) }

\* Every response object the model draws: each of priority_color and score
\* present with one of its values or missing, with or without the explanatory
\* fields, with or without the extra keys.
AiObjects ==
    { Merge(Merge(Merge(base, extra), pc), sc) :
        base \in {EmptyDict, FullFields},
        extra \in {EmptyDict, ExtraFields},
        pc \in {EmptyDict} \cup { Field("priority_color", v) : v \in PriorityColorValues },
        sc \in {EmptyDict} \cup { Field("score", v) : v \in ScoreValues } }

TriageOutcomes ==
    { Outcome("raise", EmptyDict, ""),
      Outcome("invalid_json", EmptyDict, "not json"),
      Outcome("non_object", EmptyDict, "[1, 2]") }
    \cup { Outcome("object", d, "") : d \in AiObjects }

\* The service's outcomes a process can meet: none without a client.
OutcomesFor(cl, outcomes) == IF cl THEN outcomes ELSE {NoCall}

\* -------------------------------------------------- triage scoring engine
\* Line 192, before the try: ', '.join(selected_symptoms) raises TypeError on a
\* truthy value that is a number or a list with an entry that is no string; a
\* falsy value is never joined, a non-empty string is joined by character.
PromptRaises(selected_symptoms) ==
    /\ Truthy(selected_symptoms)
    /\ \/ selected_symptoms.t = "num"
       \/ /\ selected_symptoms.t = "list"
          /\ \E i \in 1..Len(selected_symptoms.l) : selected_symptoms.l[i].t # "str"

\* Lines 219-242: what makes the try block raise. A missing client (220), the
\* call itself (223), json.loads (228), .get on a value that is no dict (231),
\* .lower() on a priority_color that is no string (238).
TryRaises(cl, ai) ==
    \/ ~cl
    \/ ai.kind \in {"raise", "invalid_json", "non_object"}
    \/ /\ ai.kind = "object"
       /\ Get(ai.data, "priority_color", JStr("Yellow")).t # "str"

\* Line 232 with Yellow left out of the Medium colours.
MappedPriority_YellowLow(p_color) ==
    IF p_color = JStr("Red") THEN "High"
    ELSE IF p_color \in {JStr("Orange")} THEN "Medium"
    ELSE "Low"

\* Line 232.
MappedPriority(p_color) ==
    IF p_color = JStr("Red") THEN "High"
    ELSE IF p_color \in {JStr("Orange"), JStr("Yellow")} THEN "Medium"
    ELSE "Low"

\* Lines 231-242 with **ai_data spread after the derived keys, so that the
\* response's own keys win.
SuccessResult_ResponseWins(ai_data, selected_symptoms) ==
    LET p_color == Get(ai_data, "priority_color", JStr("Yellow"))
        dept == Get(ai_data, "recommended_department", JStr("Reception"))
        derived ==
            [k \in {"selected_symptoms", "priority", "color", "instructions",
                    "next_steps", "reassurance"} |->
                CASE k = "selected_symptoms" -> selected_symptoms
                  [] k = "priority" -> JStr(MappedPriority(p_color))
                  [] k = "color" -> JStr(Lower(p_color.s))
                  [] k = "instructions" -> Get(ai_data, "immediate_actions", JList(<<>>))
                  [] k = "next_steps" -> StrList(<<"Go to " \o dept.s>>)
                  [] k = "reassurance" -> Get(ai_data, "risk_explanation", JStr(""))]
    IN  Merge(derived, ai_data)

\* Lines 231-242: the success result, the derived keys laid over the response.
SuccessResult(ai_data, selected_symptoms) ==
    LET p_color == Get(ai_data, "priority_color", JStr("Yellow"))
        dept == Get(ai_data, "recommended_department", JStr("Reception"))
        derived ==
            [k \in {"selected_symptoms", "priority", "color", "instructions",
                    "next_steps", "reassurance"} |->
                CASE k = "selected_symptoms" -> selected_symptoms
                  [] k = "priority" -> JStr(MappedPriority(p_color))
                  [] k = "color" -> JStr(Lower(p_color.s))
                  [] k = "instructions" -> Get(ai_data, "immediate_actions", JList(<<>>))
                  [] k = "next_steps" -> StrList(<<"Go to " \o dept.s>>)
                  [] k = "reassurance" -> Get(ai_data, "risk_explanation", JStr(""))]
    IN  Merge(ai_data, derived)

\* Lines 246-265: the fixed fallback.
FallbackResult(selected_symptoms) ==
    [k \in {"score", "priority", "priority_color", "color", "priority_label",
            "summary", "probable_diagnosis", "risk_factors",
            "recommended_department", "medical_description", "risk_explanation",
            "immediate_actions", "instructions", "next_steps",
            "medication_suggestions_disclaimer", "medication_suggestions",
            "reassurance", "selected_symptoms"} |->
        CASE k = "score" -> JNum(50)
          [] k = "priority" -> JStr("Medium")
          [] k = "priority_color" -> JStr("Yellow")
          [] k = "color" -> JStr("yellow")
          [] k = "priority_label" -> JStr("System Error - Manual Triage Required")
          [] k = "summary" -> JStr("AI classification failed because the Groq API key is missing or invalid in your .env file.")
          [] k = "probable_diagnosis" -> JStr("Offline Mode")
          [] k = "risk_factors" -> JStr("Unknown")
          [] k = "recommended_department" -> JStr("Triage")
          [] k = "medical_description" -> JStr("Failed to connect to AI. Please add a valid API key to enable Smart Triage.")
          [] k = "risk_explanation" -> JStr("Please consult a doctor manually or add an API key.")
          [] k = "immediate_actions" -> StrList(<<"Consult a doctor immediately if symptoms worsen.">>)
          [] k = "instructions" -> StrList(<<"Consult a doctor immediately if symptoms worsen.">>)
          [] k = "next_steps" -> StrList(<<"Wait for a triage nurse.">>)
          [] k = "medication_suggestions_disclaimer" -> JStr("")
          [] k = "medication_suggestions" -> JList(<<>>)
          [] k = "reassurance" -> JStr("Our medical team will assess you shortly.")
          [] k = "selected_symptoms" -> selected_symptoms]

\* compute_triage(severity, selected_symptoms, description), with the client
\* and the service's outcome as further inputs. raised: an exception leaves
\* the function; fallback: the except branch built the result.
compute_triage(severity, selected_symptoms, description, cl, ai) ==
    IF PromptRaises(selected_symptoms)
    THEN [raised |-> TRUE, fallback |-> FALSE, result |-> EmptyDict]
    ELSE IF TryRaises(cl, ai)
    THEN [raised |-> FALSE, fallback |-> TRUE,
          result |-> FallbackResult(selected_symptoms)]
    ELSE [raised |-> FALSE, fallback |-> FALSE,
          result |-> SuccessResult(ai.data, selected_symptoms)]

\* ------------------------------------------------------------- case store
\* A TriageCase row. symptoms and ai_raw_response hold what json.loads gives
\* back from the stored text; timestamp is the clock's reading at the insert.
TriageCase(id, name, age, contact, severity, symptoms, description, result, now) ==
    [id |-> id, name |-> name, age |-> age, contact |-> contact,
     severity |-> severity, symptoms |-> symptoms, description |-> description,
     priority |-> result["priority"], score |-> result["score"],
     timestamp |-> now, ai_raw_response |-> result]

SetMax(S) == CHOOSE x \in S : \A y \in S : y <= x

\* The integer primary key of a new row: one more than the largest id in the
\* table, 1 in an empty table.
NextId(cs) == IF cs = {} THEN 1 ELSE SetMax({ c.id : c \in cs }) + 1

\* TriageCase.query.get(case_id): the rows with that key (one or none).
QueryGet(cs, case_id) == { c \in cs : c.id = case_id }

\* Lines 342-345 with the lookup matching every id up to case_id.
DeleteRow_UpTo(cs, case_id) == cs \ { c \in cs : c.id <= case_id }

\* Lines 342-345: the table after delete_case(case_id).
DeleteRow(cs, case_id) == cs \ QueryGet(cs, case_id)

\* Lines 295-303: the table after triage has added its row.
AddRow(cs, row) == cs \cup {row}

\* ------------------------------------------------------- request records
\* What the last request was and how it ended. ai is what the service answers
\* when called during the request. status 500 with raised_in set: an exception
\* left the handler, raised in the named function.
NoChat == [has_message |-> FALSE, message |-> JNull,
           history |-> [t |-> "absent", empty |-> TRUE, entries |-> <<>>]]

Request(op, request, chat, case_id, ai, sent, status, raised_in, response) ==
    [op |-> op, request |-> request, chat |-> chat, case_id |-> case_id,
     ai |-> ai, sent |-> sent, status |-> status, raised_in |-> raised_in,
     response |-> response, rows |-> <<>>]

ErrorBody(msg) == Field("error", JStr(msg))

\* ----------------------------------------------------------------- /triage
FormSeverities == {"Mild", "Severe"}

\* The symptom lists drawn for form submissions: none, one catalogue name, a
\* catalogue name with a name the catalogue does not hold.
FormSymptomLists ==
    { <<>>, <<"Chest Pain">>, <<"Fatigue", "Itchy Elbow">> }

FormContacts == {"555-0101"}

\* The service's outcomes drawn for form submissions.
FormOutcomes ==
    { Outcome("raise", EmptyDict, ""),
      Outcome("object", Merge(FullFields, Merge(Field("priority_color", JStr("Red")), Field("score", JNum(95)))), ""),
      Outcome("object", Merge(FullFields, Field("priority_color", JStr("Green"))), ""),
      Outcome("object", Merge(Merge(ExtraFields, ColumnFields), Merge(Field("priority_color", JStr("Orange")), Field("score", JNum(95)))), "") }

\* Lines 282-313. The form's fields are strings and a list of strings.
triage(name, age, contact, severity, symptoms, description, ai) ==
    LET r == compute_triage(severity, StrList(symptoms), description, client, ai)
        form == [k \in {"severity", "symptoms"} |->
                    IF k = "severity" THEN JStr(severity) ELSE StrList(symptoms)]
    IN  /\ clock < MaxSubmissions
        /\ IF r.raised
           THEN /\ last' = Request("triage", form, NoChat, 0, ai, <<>>, 500,
                                   "compute_triage", EmptyDict)
                /\ UNCHANGED <<cases, clock, submitted>>
           ELSE IF "score" \notin DOMAIN r.result
           THEN \* line 299: result["score"] raises KeyError
                /\ last' = Request("triage", form, NoChat, 0, ai, <<>>, 500,
                                   "triage", EmptyDict)
                /\ UNCHANGED <<cases, clock, submitted>>
           ELSE LET row == TriageCase(NextId(cases), name, age, contact, severity,
                                      StrList(symptoms), description, r.result,
                                      clock + 1)
                IN  /\ cases' = AddRow(cases, row)
                    /\ submitted' = submitted \cup {row}
                    /\ clock' = clock + 1
                    /\ last' = Request("triage", form, NoChat, row.id, ai, <<>>,
                                       200, "", r.result)
        /\ UNCHANGED <<client, removed>>

Triage ==
    \E contact \in FormContacts, severity \in FormSeverities,
       symptoms \in FormSymptomLists, ai \in OutcomesFor(client, FormOutcomes) :
        triage("Ada", "41", contact, severity, symptoms, "since this morning", ai)

\* ------------------------------------------- /hospital/delete/<case_id>
\* Lines 339-346.
delete_case(case_id) ==
    /\ cases' = DeleteRow(cases, case_id)
    /\ removed' = removed \cup QueryGet(cases, case_id)
    /\ last' = Request("delete_case", EmptyDict, NoChat, case_id, NoCall, <<>>,
                       302, "", EmptyDict)
    /\ UNCHANGED <<client, clock, submitted>>

DeleteCase == \E case_id \in 1..(MaxSubmissions + 1) : delete_case(case_id)

\* ------------------------------------------- /hospital, /patient/history
\* The clock's ticks in one minute: strftime("%Y-%m-%d %H:%M") keeps the minute
\* of a timestamp and drops the rest.
TicksPerMinute == 2

Strftime(timestamp) == "minute " \o ToString(timestamp \div TicksPerMinute)

\* order_by(TriageCase.timestamp.desc()).all(): the rows, latest first.
RECURSIVE OrderByTimestampDesc(_)
OrderByTimestampDesc(cs) ==
    IF cs = {} THEN <<>>
    ELSE LET c == CHOOSE x \in cs : \A y \in cs : y.timestamp <= x.timestamp
         IN  <<c>> \o OrderByTimestampDesc(cs \ {c})

\* Lines 399-403: the columns patient_history lays under the stored response.
HistoryColumns(c) ==
    [k \in {"name", "age", "contact", "severity", "symptoms", "description",
            "priority", "score", "timestamp"} |->
        CASE k = "name" -> JStr(c.name)
          [] k = "age" -> JStr(c.age)
          [] k = "contact" -> JStr(c.contact)
          [] k = "severity" -> JStr(c.severity)
          [] k = "symptoms" -> c.symptoms
          [] k = "description" -> JStr(c.description)
          [] k = "priority" -> c.priority
          [] k = "score" -> c.score
          [] k = "timestamp" -> JStr(Strftime(c.timestamp))]

\* Lines 325-334: one submission of the hospital listing, the stored response
\* spread last over the row's columns ("id": c.id, ..., **ai_data).
HospitalSubmission(c) ==
    Merge(Merge(Field("id", JNum(c.id * 10)), HistoryColumns(c)), c.ai_raw_response)

\* Lines 399-405: one submission of the patient's history listing.
HistorySubmission(c) == Merge(HistoryColumns(c), c.ai_raw_response)

\* Lines 316-336.
hospital ==
    LET listed == OrderByTimestampDesc(cases)
    IN  /\ last' = [ Request("hospital", EmptyDict, NoChat, 0, NoCall, <<>>, 200,
                             "", EmptyDict)
                       EXCEPT !.rows = [i \in 1..Len(listed) |->
                                          HospitalSubmission(listed[i])] ]
        /\ UNCHANGED <<client, cases, clock, submitted, removed>>

Hospital == hospital

\* The contact numbers asked for: the one cases are submitted under (it has
\* none while the store is empty) and a blank one.
HistoryContacts == {"555-0101", ""}

\* Lines 381-407. A missing contact and a contact without cases are answered
\* with a redirect to the intake form.
patient_history(contact) ==
    LET listed == OrderByTimestampDesc({ c \in cases : c.contact = contact })
        form == Field("contact", JStr(contact))
    IN  /\ last' =
              IF contact = "" \/ listed = <<>>
              THEN Request("patient_history", form, NoChat, 0, NoCall, <<>>, 302,
                           "", EmptyDict)
              ELSE [ Request("patient_history", form, NoChat, 0, NoCall, <<>>, 200,
                             "", EmptyDict)
                       EXCEPT !.rows = [i \in 1..Len(listed) |->
                                          HistorySubmission(listed[i])] ]
        /\ UNCHANGED <<client, cases, clock, submitted, removed>>

PatientHistory == \E contact \in HistoryContacts : patient_history(contact)

\* ---------------------------------------------------------- specification
NoRequest == Request("none", EmptyDict, NoChat, 0, NoCall, <<>>, 0, "", EmptyDict)

Init ==
    /\ client \in BOOLEAN
    /\ cases = {}
    /\ clock = 0
    /\ submitted = {}
    /\ removed = {}
    /\ last = NoRequest

Next == Triage \/ DeleteCase

\* The case store as its submissions and deletions change it.
Spec == Init /\ [][Next]_vars

ListingNext == Triage \/ DeleteCase \/ Hospital \/ PatientHistory

\* The case store with the two listings that read it; they change no row.
ListingSpec == Init /\ [][ListingNext]_vars

\* ------------------------------------------------------ /api/recommendation
ApiSeverities == {"Mild", "Moderate", "Severe", "Extreme"}

\* The entries of a submitted symptoms list: catalogue names (critical and
\* not), a name the catalogue does not hold, a number.
ApiSymptomEntries ==
    { AStr("Chest Pain"), AStr("Severe Burns"), AStr("Fatigue"),
      AStr("Itchy Elbow"), ANum(10) }

ApiSymptomValues ==
    { JList(l) : l \in UNION { [1..n -> ApiSymptomEntries] : n \in 0..MaxSymptoms } }
    \cup { JStr("Fatigue"), JStr(""), JNum(10), JNum(0), JNull }

ApiDescriptionValues == { JStr("short of breath"), JNum(70) }

\* The JSON objects posted: each of the three keys present with one of its
\* values or missing.
ApiPayloads ==
    { Merge(Merge(sv, sy), de) :
        sv \in {EmptyDict} \cup { Field("severity", JStr(x)) : x \in ApiSeverities },
        sy \in {EmptyDict} \cup { Field("symptoms", v) : v \in ApiSymptomValues },
        de \in {EmptyDict} \cup { Field("description", v) : v \in ApiDescriptionValues } }

\* A request that has arrived and is not handled yet: status 0, ai what the
\* service answers if the handler calls it.
Pending(op, request, chat, ai) ==
    Request(op, request, chat, 0, ai, <<>>, 0, "", EmptyDict)

IsPending(op) == last.op = op /\ last.status = 0

Answer(status, raised_in, response) ==
    [last EXCEPT !.status = status, !.raised_in = raised_in, !.response = response]

\* Lines 420-432.
api_recommendation(data, ai) ==
    LET severity == Get(data, "severity", JStr("Mild"))
        symptoms == Get(data, "symptoms", JList(<<>>))
        description == Get(data, "description", JStr(""))
        r == compute_triage(severity.s, symptoms, description.s, client, ai)
    IN  /\ last' =
              IF data = EmptyDict
              THEN Answer(400, "", ErrorBody("Invalid or missing JSON payload"))
              ELSE IF description.t # "str"
              THEN \* line 429: .strip() on a value that is no string
                   Answer(500, "api_recommendation", EmptyDict)
              ELSE IF r.raised
              THEN Answer(500, "compute_triage", EmptyDict)
              ELSE Answer(200, "", r.result)
        /\ UNCHANGED <<client, cases, clock, submitted, removed>>

ApiRecommendation ==
    /\ IsPending("api_recommendation")
    /\ api_recommendation(last.request, last.ai)

\* ------------------------------------------------------------ /api/chatbot
\* str.strip() on the messages the model draws.
Strip(s) ==
    CASE s = "   " -> ""
      [] s = " I have a mild headache. " -> "I have a mild headache."
      [] OTHER -> s

\* One entry of the posted history: a dict with or without its role and parts
\* keys (t = "dict"), or a value that is no dict.
HistoryEntry(t, has_role, role, has_parts, parts) ==
    [t |-> t, has_role |-> has_role, role |-> role, has_parts |-> has_parts,
     parts |-> parts]

HistoryEntries ==
    { HistoryEntry("dict", TRUE, "user", TRUE, JStr("I feel dizzy")),
      HistoryEntry("dict", TRUE, "model", TRUE, StrList(<<"Please rest.">>)),
      HistoryEntry("dict", FALSE, "", FALSE, JNull),
      HistoryEntry("str", FALSE, "", FALSE, JNull) }

\* The posted history: missing, a list of entries, or a value that is no list
\* (null, a number, a string or an object, empty or not).
History(t, empty, entries) == [t |-> t, empty |-> empty, entries |-> entries]

MaxHistory == 2

Histories ==
    { History("list", l = <<>>, l) :
        l \in UNION { [1..n -> HistoryEntries] : n \in 0..MaxHistory } }
    \cup { History("absent", TRUE, <<>>), History("null", TRUE, <<>>),
           History("num", TRUE, <<>>), History("str", TRUE, <<>>),
           History("str", FALSE, <<>>), History("dict", TRUE, <<>>),
           History("dict", FALSE, <<>>) }

MessageValues ==
    { JStr("I have a mild headache."), JStr(" I have a mild headache. "),
      JStr("   "), JStr(""), JNum(1230), JNull }

ChatPayloads ==
    { [has_message |-> hm, message |-> m, history |-> h] :
        hm \in {TRUE}, m \in MessageValues, h \in Histories }
    \cup { [has_message |-> FALSE, message |-> JNull, history |-> h] : h \in Histories }

ChatOutcomes ==
    { Outcome("raise", EmptyDict, ""),
      Outcome("reply", EmptyDict, "Drink water and rest."),
      Outcome("reply", EmptyDict, "Please see a doctor.") }

system_prompt ==
    "You are a helpful, empathetic medical AI assistant for the Smart Triage system. You provide general health guidance and advise users to seek professional medical help for serious conditions. Keep answers concise, supportive, and extremely professional."

fallback_msg ==
    "Hello! I am currently running in offline mode because the Groq API key is missing or invalid. Please add a valid GROQ_API_KEY to the .env file to enable AI responses."

Message(role, content) == [role |-> role, content |-> content]

\* Lines 459-464: `for msg in history` raises on a value that cannot be
\* iterated (null, a number); a non-empty string or object yields strings, on
\* which msg.get raises, as it does on every entry that is no dict.
HistoryRaises(history) ==
    \/ history.t \in {"null", "num"}
    \/ history.t \in {"str", "dict"} /\ ~history.empty
    \/ \E i \in 1..Len(history.entries) : history.entries[i].t # "dict"

\* Lines 460-464: one entry as the message sent to the service.
GroqMessage(msg) ==
    LET role == IF msg.has_role /\ msg.role = "model" THEN "assistant" ELSE "user"
        parts == IF msg.has_parts THEN msg.parts ELSE JStr("")
        content ==
            IF parts.t = "list"
            THEN IF Len(parts.l) > 0
                 THEN [t |-> parts.l[1].t, s |-> parts.l[1].s, n |-> parts.l[1].n,
                       l |-> <<>>]
                 ELSE JStr("")
            ELSE parts
    IN  Message(role, content)

\* Lines 458-466: the messages sent, given that building them does not raise.
groq_history(message, history) ==
    <<Message("system", JStr(system_prompt))>>
    \o [i \in 1..Len(history.entries) |-> GroqMessage(history.entries[i])]
    \o <<Message("user", JStr(message))>>

\* Lines 435-479. The absent keys take their defaults: message "", history [].
api_chatbot(data, ai) ==
    LET message == IF data.has_message THEN data.message ELSE JStr("")
        history == IF data.history.t = "absent"
                   THEN History("list", TRUE, <<>>) ELSE data.history
        stripped == Strip(message.s)
    IN  /\ last' =
              IF ~data.has_message /\ data.history.t = "absent"
              THEN \* `if not data`: the empty object
                   Answer(400, "", ErrorBody("Invalid or missing JSON payload"))
              ELSE IF message.t # "str"
              THEN \* line 442: .strip() on a value that is no string
                   Answer(500, "api_chatbot", EmptyDict)
              ELSE IF stripped = ""
              THEN Answer(400, "", ErrorBody("Message is required"))
              ELSE IF ~client \/ HistoryRaises(history) \/ ai.kind # "reply"
              THEN Answer(200, "", Field("response", JStr(fallback_msg)))
              ELSE [ Answer(200, "", Field("response", JStr(ai.text)))
                       EXCEPT !.sent = groq_history(stripped, history) ]
        /\ UNCHANGED <<client, cases, clock, submitted, removed>>

ApiChatbot ==
    /\ IsPending("api_chatbot")
    /\ api_chatbot(last.chat, last.ai)

\* One request to a JSON endpoint has arrived at a fresh process.
ApiInit ==
    /\ client \in BOOLEAN
    /\ cases = {}
    /\ clock = 0
    /\ submitted = {}
    /\ removed = {}
    /\ last \in { Pending("api_recommendation", data, NoChat, ai) :
                    data \in ApiPayloads, ai \in OutcomesFor(client, TriageOutcomes) }
                \cup { Pending("api_chatbot", EmptyDict, data, ai) :
                    data \in ChatPayloads, ai \in OutcomesFor(client, ChatOutcomes) }

ApiNext == ApiRecommendation \/ ApiChatbot

ApiSpec == ApiInit /\ [][ApiNext]_vars

\* ------------------------------------- the deterministic reference scorer
\* The scorer of the specification's section 4.2, over the catalogue above:
\* what the scoring claims compare compute_triage with.
RECURSIVE RefRaw(_)
RefRaw(l) ==
    IF l = <<>> THEN 0
    ELSE (IF l[1].t = "str" /\ l[1].s \in SymptomNames
          THEN SYMPTOMS[l[1].s].weight ELSE 0) + RefRaw(Tail(l))

RefMultiplier(severity) ==
    IF severity \in DOMAIN SEVERITY_MULTIPLIER THEN SEVERITY_MULTIPLIER[severity] ELSE 10

\* round(raw * multiplier, 1) in tenths: the multipliers are whole tenths.
RefScore(severity, l) == RefRaw(l) * RefMultiplier(severity)

RefHasCritical(l) ==
    \E i \in 1..Len(l) :
        l[i].t = "str" /\ l[i].s \in SymptomNames /\ SYMPTOMS[l[i].s].critical

RefPriority(severity, l) ==
    IF severity = "Severe" /\ RefHasCritical(l) THEN "High"
    ELSE IF RefScore(severity, l) >= 70 THEN "High"
    ELSE IF RefScore(severity, l) >= 40 THEN "Medium"
    ELSE "Low"

\* ------------------------------------------------------------------ claims
\* The request in `last` was handled by api_recommendation and reached the
\* call of compute_triage (a non-empty payload whose description is a string).
Scored ==
    /\ last.op = "api_recommendation"
    /\ last.status # 0
    /\ last.request # EmptyDict
    /\ Get(last.request, "description", JStr("")).t = "str"

ScoredSeverity == Get(last.request, "severity", JStr("Mild")).s

ScoredSymptoms == Get(last.request, "symptoms", JList(<<>>))

IsStringList(v) == v.t = "list" /\ \A i \in 1..Len(v.l) : v.l[i].t = "str"

\* The external classification cannot be obtained or used: no client, the call
\* raises, the text is no JSON, or the JSON does not match the schema (no
\* object, no score, a priority_color that is no string).
ClassificationUnusable ==
    \/ ~client
    \/ last.ai.kind \in {"raise", "invalid_json", "non_object"}
    \/ /\ last.ai.kind = "object"
       /\ \/ "score" \notin DOMAIN last.ai.data
          \/ Get(last.ai.data, "priority_color", JStr("Yellow")).t # "str"

\* C1: whenever the external classification cannot be obtained or used, the
\* result compute_triage returns for a list of symptoms is the fixed fallback
\* object (priority Medium, score 5.0, selected_symptoms the input list) and no
\* failure reaches the caller.
C1_UnusableGivesFallback ==
    (Scored /\ IsStringList(ScoredSymptoms) /\ ClassificationUnusable)
        => /\ last.status = 200
           /\ last.response = FallbackResult(ScoredSymptoms)
           /\ last.response["priority"] = JStr("Medium")
           /\ last.response["score"] = JNum(50)

\* C2: scoring is total: for every severity, symptoms value and description,
\* no exception raised in compute_triage reaches api_recommendation's caller.
C2_ScoringTotal ==
    Scored => last.raised_in # "compute_triage" /\ last.status = 200

PromptColours == {"Red", "Orange", "Yellow", "Green"}

\* C3: a result built from a parsed response whose priority_color is Red,
\* Orange, Yellow or Green has priority High for Red, Medium for Orange and
\* Yellow, Low for Green.
C3_ColourMapsToPriority ==
    ( /\ Scored
      /\ last.status = 200
      /\ client
      /\ last.ai.kind = "object"
      /\ "priority_color" \in DOMAIN last.ai.data
      /\ last.ai.data["priority_color"].t = "str"
      /\ last.ai.data["priority_color"].s \in PromptColours )
        => LET colour == last.ai.data["priority_color"].s
           IN  last.response["priority"] =
                   JStr(CASE colour = "Red" -> "High"
                          [] colour \in {"Orange", "Yellow"} -> "Medium"
                          [] colour = "Green" -> "Low")

\* A Yellow response that carries a priority key of its own was mapped to Medium.
C3_Witness ==
    /\ Scored
    /\ last.status = 200
    /\ client
    /\ last.ai.kind = "object"
    /\ Get(last.ai.data, "priority_color", JNull) = JStr("Yellow")
    /\ Get(last.ai.data, "priority", JNull) = JStr("High")
    /\ last.response["priority"] = JStr("Medium")

TriageResultKeys ==
    {"score", "priority", "color", "label", "instructions", "next_steps",
     "reassurance", "selected_symptoms"}

\* C4: every result compute_triage returns, on the success path and on the
\* fallback path, has the full TriageResult shape: score, priority (Low, Medium
\* or High), color, label, instructions, next_steps, reassurance and
\* selected_symptoms.
C4_ResultShape ==
    (Scored /\ last.status = 200)
        => /\ TriageResultKeys \subseteq DOMAIN last.response
           /\ last.response["priority"] \in {JStr("Low"), JStr("Medium"), JStr("High")}

\* C5: with severity Severe, a symptom list made only of catalogue names with
\* at least one critical symptom is scored High.
C5_AutoEscalation ==
    ( /\ Scored
      /\ last.status = 200
      /\ ScoredSeverity = "Severe"
      /\ IsStringList(ScoredSymptoms)
      /\ \A i \in 1..Len(ScoredSymptoms.l) : ScoredSymptoms.l[i].s \in SymptomNames
      /\ RefHasCritical(ScoredSymptoms.l) )
        => last.response["priority"] = JStr("High")

\* C6: the score and priority returned for (severity, symptoms) are those of
\* the deterministic reference scorer: the summed catalogue weights (unknown
\* names 0, duplicates counted again) times the severity's multiplier, and the
\* bucket of that score unless auto-escalation applies.
C6_MatchesReferenceScorer ==
    (Scored /\ last.status = 200 /\ IsStringList(ScoredSymptoms))
        => /\ "score" \in DOMAIN last.response
           /\ last.response["score"] = JNum(RefScore(ScoredSeverity, ScoredSymptoms.l))
           /\ last.response["priority"]
                  = JStr(RefPriority(ScoredSeverity, ScoredSymptoms.l))

\* C7: every symptom name recorded with a stored Case, in its symptoms column
\* and in its result's selected_symptoms, is a key of the catalogue.
C7_StoredSymptomsInCatalogue ==
    \A c \in cases :
        /\ \A i \in 1..Len(c.symptoms.l) : c.symptoms.l[i].s \in SymptomNames
        /\ LET sel == c.ai_raw_response["selected_symptoms"]
           IN  \A i \in 1..Len(sel.l) : sel.l[i].s \in SymptomNames

\* C8: every triage submission creates exactly one new Case, with the submitted
\* severity and symptoms and the priority and score of the result returned for
\* it, and leaves every Case that exists as it is.
C8_SubmissionCreatesOneCase ==
    [][ Triage =>
          /\ cases \subseteq cases'
          /\ \E row \in cases' \ cases :
                /\ cases' = cases \cup {row}
                /\ row.severity = last'.request["severity"].s
                /\ row.symptoms = last'.request["symptoms"]
                /\ row.priority = last'.response["priority"]
                /\ row.score = last'.response["score"] ]_vars

\* C9: delete_case(id) removes exactly the Case with that id when there is one
\* and leaves the store as it is when there is none, completing normally either
\* way; and the store always holds exactly the cases submitted and not deleted.
C9_DeleteRemovesExactlyThatCase ==
    /\ [][ DeleteCase =>
             /\ cases' = { c \in cases : c.id # last'.case_id }
             /\ last'.status = 302
             /\ last'.raised_in = "" ]_vars
    /\ [](cases = submitted \ removed)

\* A Case was deleted while another stays, and the last deletion named an id
\* that no Case has.
C9_Witness ==
    /\ last.op = "delete_case"
    /\ removed # {}
    /\ cases # {}
    /\ \A c \in cases : c.id # last.case_id
    /\ \A c \in removed : c.id # last.case_id

\* The payload carries a message: the key is there with a value that is not
\* null and not a blank string.
CarriesMessage(data) ==
    /\ data.has_message
    /\ data.message.t # "null"
    /\ ~(data.message.t = "str" /\ Strip(data.message.s) = "")

\* The history is present and is not a list of objects.
MalformedHistory(history) ==
    \/ history.t \notin {"absent", "list"}
    \/ \E i \in 1..Len(history.entries) : history.entries[i].t # "dict"

OfflineBody == Field("response", JStr(fallback_msg))

\* C10: for every payload carrying a message, api_chatbot never raises; it
\* answers the fixed offline-mode message when the client is missing, the call
\* raises or the history is malformed, and the service's reply unchanged
\* otherwise; no call changes the stored state.
C10_ChatbotNeverRaises ==
    ( /\ last.op = "api_chatbot"
      /\ last.status # 0
      /\ CarriesMessage(last.chat) )
        => /\ last.raised_in = ""
           /\ last.status = 200
           /\ IF ~client \/ last.ai.kind = "raise" \/ MalformedHistory(last.chat.history)
              THEN last.response = OfflineBody
              ELSE last.response = Field("response", JStr(last.ai.text))
           /\ cases = {}

\* The request in `last` ended with a success result of compute_triage: the
\* service answered an object whose priority_color, if any, is a string.
SuccessResultReturned ==
    /\ Scored
    /\ last.status = 200
    /\ client
    /\ last.ai.kind = "object"
    /\ Get(last.ai.data, "priority_color", JStr("Yellow")).t = "str"

\* C11: in a success result the derived fields win over the response's own
\* keys: priority is the value mapped from priority_color (a missing one counts
\* as Yellow, so Medium), color is the lower-cased priority_color, instructions
\* is immediate_actions, selected_symptoms is the caller's input; and the
\* result is High only when priority_color is exactly "Red".
C11_DerivedFieldsWin ==
    SuccessResultReturned =>
        LET colour == Get(last.ai.data, "priority_color", JStr("Yellow")).s
        IN  /\ last.response["priority"] =
                   JStr(IF colour = "Red" THEN "High"
                        ELSE IF colour \in {"Orange", "Yellow"} THEN "Medium"
                        ELSE "Low")
            /\ ("priority_color" \notin DOMAIN last.ai.data
                    => last.response["priority"] = JStr("Medium"))
            /\ last.response["color"] = JStr(Lower(colour))
            /\ last.response["instructions"]
                   = Get(last.ai.data, "immediate_actions", JList(<<>>))
            /\ last.response["selected_symptoms"] = ScoredSymptoms
            /\ (last.response["priority"] = JStr("High")
                    => Get(last.ai.data, "priority_color", JNull) = JStr("Red"))

\* A response without priority_color that carries its own priority (High),
\* color, instructions and selected_symptoms was answered with Medium, yellow,
\* no instructions and the caller's two symptoms.
C11_Witness ==
    /\ SuccessResultReturned
    /\ "priority_color" \notin DOMAIN last.ai.data
    /\ "immediate_actions" \notin DOMAIN last.ai.data
    /\ Get(last.ai.data, "priority", JNull) = JStr("High")
    /\ Get(last.ai.data, "color", JNull) = JStr("blue")
    /\ Get(last.ai.data, "selected_symptoms", JNull) = StrList(<<"Injected">>)
    /\ ScoredSymptoms = StrList(<<"Chest Pain", "Fatigue">>)
    /\ last.response["priority"] = JStr("Medium")
    /\ last.response["color"] = JStr("yellow")
    /\ last.response["instructions"] = JList(<<>>)
    /\ last.response["selected_symptoms"] = ScoredSymptoms

\* The cases a listing in `last` shows, in its order: all of them for the
\* hospital, those of the contact asked for in the patient's history.
ListedCases ==
    IF last.op = "hospital" THEN OrderByTimestampDesc(cases)
    ELSE OrderByTimestampDesc(
             { c \in cases : JStr(c.contact) = last.request["contact"] })

\* C12: every row of the hospital listing and of the patient's history shows
\* the stored Case's own columns (id for the hospital, name, age, contact,
\* severity, symptoms, description, priority, score, timestamp), whatever keys
\* the stored response has; the id a row offers for deletion is its Case's id.
C12_RowsShowStoredColumns ==
    (last.op \in {"hospital", "patient_history"} /\ last.status = 200)
        => /\ Len(last.rows) = Len(ListedCases)
           /\ \A i \in 1..Len(last.rows) :
                LET row == last.rows[i]
                    c == ListedCases[i]
                IN  /\ (last.op = "hospital" => row["id"] = JNum(c.id * 10))
                    /\ row["name"] = JStr(c.name)
                    /\ row["age"] = JStr(c.age)
                    /\ row["contact"] = JStr(c.contact)
                    /\ row["severity"] = JStr(c.severity)
                    /\ row["symptoms"] = c.symptoms
                    /\ row["description"] = JStr(c.description)
                    /\ row["priority"] = c.priority
                    /\ row["score"] = c.score
                    /\ row["timestamp"] = JStr(Strftime(c.timestamp))

====
